---- MODULE Spec2Model ----
(***************************************************************************)
(* Model of oracle_code.py: helper functions around one Oracle connection.  *)
(*                                                                         *)
(* One connection, one target table and its scratch table TEMP_<table>.    *)
(* A table is a bag of rows; a row is a tuple of values aligned to the      *)
(* table's column order.  Every table has a working content (what the open *)
(* transaction sees) and a committed content (what is durable).  DML acts  *)
(* on the working content; commit copies working to committed, rollback    *)
(* copies committed to working; a DDL statement commits the open           *)
(* transaction (module docstring, lines 4-6).                               *)
(***************************************************************************)
EXTENDS Bags, FiniteSets, Integers, Sequences, TLC

VARIABLES
    pc,          \* position of the running call
    err,         \* exception that ended the call, "none" otherwise
    caller,      \* the function the caller invoked
    BATCH_SIZE,  \* module global, line 15
    desc,        \* cur.description of the target table: its column names
    tbl,         \* target table, working content
    tblC,        \* target table, committed content
    tmpExists,   \* TEMP_<table> exists
    tmpPK,       \* TEMP_<table> carries the primary key over join_keys
    tmp,         \* scratch table, working content
    tmpC,        \* scratch table, committed content
    df_columns,  \* df.columns of the caller's DataFrame
    df_rows,     \* the DataFrame's rows, aligned to df_columns
    table,       \* table argument of append_df / append_data
    truncate,    \* truncate argument
    join_keys,   \* join_keys argument of update_join
    commit,      \* commit argument of update_join
    all_data,    \* records returned by format_data
    out_columns, \* columns of the records returned by format_data
    start_pos,   \* loop variable of append_data
    np_array,    \* np_array argument of delete_data
    column,      \* column argument of delete_data
    log,         \* statements sent to the database, in order
    batches,     \* the data argument of every executemany call, in order
    failedAt,    \* number of the executemany call that failed, 0 if none
    tblAtCall,   \* working content of the target when the call started
    tblCAtCall,  \* committed content of the target when the call started
    tmpAtCall,   \* the scratch table when the call started: exists, rows
    priorOps     \* caller's statements issued before update_join

vars == <<pc, err, caller, BATCH_SIZE, desc, tbl, tblC, tmpExists, tmpPK, tmp,
          tmpC, df_columns, df_rows, table, truncate, join_keys, commit,
          all_data, out_columns, start_pos, np_array, column, log, batches,
          failedAt, tblAtCall, tblCAtCall, tmpAtCall, priorOps>>

dbVars == <<tbl, tblC, tmpExists, tmpPK, tmp, tmpC>>
callVars == <<caller, df_columns, df_rows, table, truncate, join_keys, commit,
              np_array, column, tblAtCall, tblCAtCall, tmpAtCall>>

----------------------------------------------------------------------------
(* Bounds of the model *)

MaxBatch == 2       \* BATCH_SIZE ranges over 1..MaxBatch
MaxT == 2           \* rows in the target table at the start
MaxS == 3           \* rows of the DataFrame given to append_df
MaxStaged == 2      \* rows of the DataFrame given to update_join
MaxCols == 2        \* columns of the target table in the reconciliation runs
MaxKeys == 2        \* length of the delete-key array
MaxPriorOps == 1    \* caller's DML statements pending before update_join

----------------------------------------------------------------------------
(* Values *)

None == "<None>"
NaN == "<nan>"

TableCols == <<"A", "B">>
MergeVals == {"x", "y"}
RawVals == {"x", "", NaN}

Range(s) == {s[i] : i \in DOMAIN s}

SeqsUpTo(S, n) == UNION {[1..k -> S] : k \in 0..n}

SeqToBag(s) ==
    [r \in Range(s) |-> Cardinality({i \in DOMAIN s : s[i] = r})]

BagsUpTo(S, n) == {SeqToBag(s) : s \in SeqsUpTo(S, n)}

Pos(c, cols) == CHOOSE i \in DOMAIN cols : cols[i] = c

\* str.upper() on the column names of the model
Upper(c) ==
    CASE c = "a" -> "A"
      [] c = "b" -> "B"
      [] c = "c" -> "C"
      [] OTHER -> c

Min(a, b) == IF a < b THEN a ELSE b

\* all_data[lo:hi] with Python's 0-based, end-exclusive, clamped slice
Slice(s, lo, hi) ==
    IF lo >= Min(hi, Len(s)) THEN <<>> ELSE SubSeq(s, lo + 1, Min(hi, Len(s)))

----------------------------------------------------------------------------
(* The database *)

\* db_conn.commit() / db_conn.rollback(), and the commit a DDL statement forces
DbCommit ==
    /\ tblC' = tbl
    /\ tmpC' = tmp
    /\ UNCHANGED <<tbl, tmp>>

DbRollback ==
    /\ tbl' = tblC
    /\ tmp' = tmpC
    /\ UNCHANGED <<tblC, tmpC>>

\* Primary key of the scratch table: the join-key values of a row
KeyOf(r, jk) == [i \in DOMAIN jk |-> r[Pos(Upper(jk[i]), desc)]]

\* Rows rs can be inserted, in order, into content b under the primary key jk
PKValid(rs, b, jk) ==
    /\ \A i \in DOMAIN rs : \A k \in DOMAIN jk : KeyOf(rs[i], jk)[k] # None
    /\ \A i, j \in DOMAIN rs : i # j => KeyOf(rs[i], jk) # KeyOf(rs[j], jk)
    /\ \A i \in DOMAIN rs : \A r \in BagToSet(b) : KeyOf(rs[i], jk) # KeyOf(r, jk)

\* INSERT of rs into the named table is accepted by the database
InsertAccepted(rs, tab) ==
    tab = "TEMP" /\ tmpPK => PKValid(rs, tmp, join_keys)

\* The working content after INSERT of rs into the named table
InsertInto(rs, tab) ==
    /\ tbl' = IF tab = "T" THEN tbl (+) SeqToBag(rs) ELSE tbl
    /\ tmp' = IF tab = "TEMP" THEN tmp (+) SeqToBag(rs) ELSE tmp
    /\ UNCHANGED <<tblC, tmpC, tmpExists, tmpPK>>

----------------------------------------------------------------------------
(* format_data, lines 151-179 *)

\* df.columns = [col.upper() for col in df.columns], line 163
UpperColumns(cols) == [i \in DOMAIN cols |-> Upper(cols[i])]

\* The first column of desc that is missing from the DataFrame, lines 166-168
MissingColumn(d, cols) == \E i \in DOMAIN d : d[i] \notin Range(cols)

\* Mutant: the columns not in the table are dropped, the DataFrame's own
\* column order is kept
ReindexColumns_KeepOrder(oracle_order, cols) ==
    LET InTable(c) == c \in Range(oracle_order) IN SelectSeq(cols, InTable)

\* df.reindex(columns=oracle_order), line 171: the columns of the result
ReindexColumns(oracle_order, cols) == oracle_order

\* df.replace({'': None, np.nan: None}), lines 172-174
Normalise(v) == IF v = "" \/ v = NaN THEN None ELSE v

\* One record of list(df.to_records(index=False)), lines 171-175
ReindexRow(row, oracle_order, cols) ==
    LET order == ReindexColumns(oracle_order, cols)
    IN  [j \in DOMAIN order |-> Normalise(row[Pos(order[j], cols)])]

format_data_raise ==
    /\ pc = "format_data"
    /\ MissingColumn(desc, UpperColumns(df_columns))
    /\ df_columns' = UpperColumns(df_columns)
    /\ log' = Append(log, "SELECT")
    /\ err' = "SchemaMismatch"
    /\ pc' = "raised"
    /\ UNCHANGED <<caller, BATCH_SIZE, desc, dbVars, df_rows, table, truncate,
                   join_keys, commit, all_data, out_columns, start_pos,
                   np_array, column, batches, failedAt, tblAtCall, tblCAtCall,
                   tmpAtCall, priorOps>>

format_data_return ==
    /\ pc = "format_data"
    /\ ~MissingColumn(desc, UpperColumns(df_columns))
    /\ df_columns' = UpperColumns(df_columns)
    /\ log' = Append(log, "SELECT")
    /\ out_columns' = ReindexColumns(desc, df_columns')
    /\ all_data' = [i \in DOMAIN df_rows |->
                        ReindexRow(df_rows[i], desc, df_columns')]
    /\ pc' = IF caller = "format_data" THEN "returned" ELSE "append_data"
    /\ UNCHANGED <<err, caller, BATCH_SIZE, desc, dbVars, df_rows, table,
                   truncate, join_keys, commit, start_pos, np_array, column,
                   batches, failedAt, tblAtCall, tblCAtCall, tmpAtCall,
                   priorOps>>

----------------------------------------------------------------------------
(* truncate_data, lines 181-188, and append_data, lines 190-213 *)

\* DELETE FROM {table}: the working content of the named table afterwards
truncate_data(content) == EmptyBag

\* Mutant: the slice runs one row too far
Batch_OneTooFar(data, pos, size) == Slice(data, pos, pos + size + 1)

\* all_data[start_pos:start_pos + BATCH_SIZE], line 203
Batch(data, pos, size) == Slice(data, pos, pos + size)

\* Mutant: the error is printed and the loop goes on
print_data_error_returns == "append_loop"

\* _print_data_error, lines 233-247: prints, then sys.exit(1); where control
\* is afterwards
print_data_error == "exited"

\* len(all_data[0]) of an empty list, line 195
append_data_empty ==
    /\ pc = "append_data"
    /\ all_data = <<>>
    /\ err' = "IndexError"
    /\ pc' = "raised"
    /\ UNCHANGED <<callVars, BATCH_SIZE, desc, dbVars, all_data, out_columns,
                   start_pos, log, batches, failedAt, priorOps>>

\* lines 194-201: the statement is prepared, the table truncated if asked
append_data_begin ==
    /\ pc = "append_data"
    /\ all_data # <<>>
    /\ IF truncate
         THEN /\ tbl' = IF table = "T" THEN truncate_data(tbl) ELSE tbl
              /\ tmp' = IF table = "TEMP" THEN truncate_data(tmp) ELSE tmp
              /\ log' = Append(log, "DELETE_ALL")
         ELSE UNCHANGED <<tbl, tmp, log>>
    /\ start_pos' = 0
    /\ pc' = "append_loop"
    /\ UNCHANGED <<callVars, err, BATCH_SIZE, desc, tblC, tmpC, tmpExists,
                   tmpPK, all_data, out_columns, batches, failedAt, priorOps>>

\* lines 203-205: the slice is empty, the loop ends and append_data returns
append_data_break ==
    /\ pc = "append_loop"
    /\ Batch(all_data, start_pos, BATCH_SIZE) = <<>>
    /\ pc' = IF caller = "update_join" THEN "uj_update" ELSE "returned"
    /\ UNCHANGED <<callVars, err, BATCH_SIZE, desc, dbVars, all_data,
                   out_columns, start_pos, log, batches, failedAt, priorOps>>

\* lines 206-211: executemany of one batch succeeds
append_data_batch ==
    /\ pc = "append_loop"
    /\ LET data == Batch(all_data, start_pos, BATCH_SIZE)
       IN  /\ data # <<>>
           /\ InsertAccepted(data, table)
           /\ InsertInto(data, table)
           /\ batches' = Append(batches, data)
    /\ start_pos' = start_pos + BATCH_SIZE
    /\ log' = Append(log, "INSERT")
    /\ pc' = "append_loop"
    /\ UNCHANGED <<callVars, err, BATCH_SIZE, desc, all_data, out_columns,
                   failedAt, priorOps>>

\* lines 212-213: executemany raises at some row of the batch, the rows before
\* it may have been inserted; _print_data_error ends the process
append_data_batch_fail ==
    /\ pc = "append_loop"
    /\ LET data == Batch(all_data, start_pos, BATCH_SIZE)
       IN  /\ data # <<>>
           /\ \E p \in 0..(Len(data) - 1) :
                 /\ InsertAccepted(SubSeq(data, 1, p), table)
                 /\ InsertInto(SubSeq(data, 1, p), table)
           /\ batches' = Append(batches, data)
    /\ start_pos' = start_pos + BATCH_SIZE
    /\ log' = Append(log, "INSERT")
    /\ failedAt' = Len(batches) + 1
    /\ err' = IF print_data_error = "exited" THEN "SystemExit" ELSE err
    /\ pc' = print_data_error
    /\ UNCHANGED <<callVars, BATCH_SIZE, desc, all_data, out_columns, priorOps>>

----------------------------------------------------------------------------
(* delete_data, lines 215-231 *)

\* The rows of content b that are in set S, with their copies
BagRestrict(b, S) == [r \in S \cap BagToSet(b) |-> b[r]]

\* Mutant: the statement is sent whatever the length of the array
HasKeys_Always(arr) == TRUE

\* len(np_array) != 0, line 219
HasKeys(arr) == Len(arr) # 0

\* list(zip(np_array)), line 221: one single-column tuple per key
ZipKeys(arr) == [i \in DOMAIN arr |-> <<arr[i]>>]

\* DELETE FROM {table} WHERE {column} = :1, once per bound tuple
DeleteWhere(content, col, data) ==
    BagRestrict(content,
        {r \in BagToSet(content) :
            \A i \in DOMAIN data : r[Pos(col, desc)] # data[i][1]})

\* line 231: nothing to delete
delete_data_skip ==
    /\ pc = "delete_data"
    /\ ~HasKeys(np_array)
    /\ pc' = "returned"
    /\ UNCHANGED <<callVars, err, BATCH_SIZE, desc, dbVars, all_data,
                   out_columns, start_pos, log, batches, failedAt, priorOps>>

\* lines 220-225: executemany succeeds
delete_data_execute ==
    /\ pc = "delete_data"
    /\ HasKeys(np_array)
    /\ LET data == ZipKeys(np_array)
       IN  /\ tbl' = DeleteWhere(tbl, column, data)
           /\ batches' = Append(batches, data)
    /\ log' = Append(log, "DELETE_KEYS")
    /\ pc' = "returned"
    /\ UNCHANGED <<callVars, err, BATCH_SIZE, desc, tblC, tmpExists, tmpPK,
                   tmp, tmpC, all_data, out_columns, start_pos, failedAt,
                   priorOps>>

\* lines 226-229: executemany raises after some of the tuples, the exception is
\* re-raised
delete_data_fail ==
    /\ pc = "delete_data"
    /\ HasKeys(np_array)
    /\ LET data == ZipKeys(np_array)
       IN  /\ \E p \in 0..(Len(data) - 1) :
                 tbl' = DeleteWhere(tbl, column, SubSeq(data, 1, p))
           /\ batches' = Append(batches, data)
    /\ log' = Append(log, "DELETE_KEYS")
    /\ failedAt' = Len(batches) + 1
    /\ err' = "DatabaseError"
    /\ pc' = "raised"
    /\ UNCHANGED <<callVars, BATCH_SIZE, desc, tblC, tmpExists, tmpPK, tmp,
                   tmpC, all_data, out_columns, start_pos, priorOps>>

----------------------------------------------------------------------------
(* commit_transactions, lines 31-39 *)

\* Mutant: the transaction is committed whatever the flag
commit_transactions_always(flag) ==
    /\ DbCommit
    /\ log' = Append(log, "COMMIT")

commit_transactions(flag) ==
    IF flag
      THEN DbCommit /\ log' = Append(log, "COMMIT")
      ELSE DbRollback /\ log' = Append(log, "ROLLBACK")

----------------------------------------------------------------------------
(* update_join, lines 60-149 *)

\* set_cols, lines 110-112: the DataFrame's columns that are not in join_keys
SetCols(cols, jk) ==
    LET NotKey(c) == c \notin Range(jk) IN SelectSeq(cols, NotKey)

\* statement_update parses: it has a SET list and names only columns of the table
UpdateStatementValid(cols, jk) ==
    /\ SetCols(cols, jk) # <<>>
    /\ \A c \in Range(cols) : Upper(c) \in Range(desc)

\* cols_join, lines 106-109: the join condition between a target row and a
\* scratch row (NULL equals nothing)
JoinMatch(t, s, jk) ==
    \A i \in DOMAIN jk :
        LET j == Pos(Upper(jk[i]), desc) IN t[j] # None /\ t[j] = s[j]

\* statement_update, lines 114-124: a target row after the update
UpdatedRow(t, scratch, cols, jk) ==
    IF \E s \in BagToSet(scratch) : JoinMatch(t, s, jk)
      THEN LET s == CHOOSE x \in BagToSet(scratch) : JoinMatch(t, x, jk)
               set == {Upper(c) : c \in Range(SetCols(cols, jk))}
           IN  [j \in DOMAIN t |-> IF desc[j] \in set THEN s[j] ELSE t[j]]
      ELSE t

UpdateByJoin(target, scratch, cols, jk) ==
    LET F(t) == UpdatedRow(t, scratch, cols, jk) IN BagOfAll(F, target)

\* Mutant: the purge deletes nothing
DeleteMatched_None(scratch, target, jk) == scratch

\* statement_delete_temp, lines 125-133
DeleteMatched(scratch, target, jk) ==
    BagRestrict(scratch,
        {s \in BagToSet(scratch) :
            ~\E t \in BagToSet(target) : JoinMatch(t, s, jk)})

\* Mutant: the scratch table is created in a transaction of its own, the
\* caller's transaction stays open
uj_create_autonomous ==
    /\ pc = "uj_create"
    /\ ~tmpExists
    /\ tmpExists' = TRUE
    /\ tmp' = EmptyBag
    /\ tmpC' = EmptyBag
    /\ log' = Append(log, "CREATE")
    /\ pc' = "uj_add_pk"
    /\ UNCHANGED <<callVars, err, BATCH_SIZE, desc, tbl, tblC, tmpPK, all_data,
                   out_columns, start_pos, batches, failedAt, priorOps>>

\* Mutant: the scratch table is created over an existing one
uj_create_replace ==
    /\ pc = "uj_create"
    /\ tblC' = tbl
    /\ tmpExists' = TRUE
    /\ tmp' = EmptyBag
    /\ tmpC' = EmptyBag
    /\ tmpPK' = FALSE
    /\ log' = Append(log, "CREATE")
    /\ pc' = "uj_add_pk"
    /\ UNCHANGED <<callVars, err, BATCH_SIZE, desc, tbl, all_data,
                   out_columns, start_pos, batches, failedAt, priorOps>>

\* line 93, CREATE TABLE TEMP_<table> AS (SELECT * ... WHERE 1=0): the open
\* transaction is committed and the empty scratch table exists
uj_create ==
    /\ pc = "uj_create"
    /\ ~tmpExists
    /\ tblC' = tbl
    /\ tmpExists' = TRUE
    /\ tmp' = EmptyBag
    /\ tmpC' = EmptyBag
    /\ log' = Append(log, "CREATE")
    /\ pc' = "uj_add_pk"
    /\ UNCHANGED <<callVars, err, BATCH_SIZE, desc, tbl, tmpPK, all_data,
                   out_columns, start_pos, batches, failedAt, priorOps>>

\* line 93 when the name is taken: the statement raises; whether the server
\* committed the open transaction before it refused is left open
uj_create_fail ==
    /\ pc = "uj_create"
    /\ tmpExists
    /\ tblC' \in {tblC, tbl}
    /\ log' = Append(log, "CREATE")
    /\ err' = "DatabaseError"
    /\ pc' = "raised"
    /\ UNCHANGED <<callVars, BATCH_SIZE, desc, tbl, tmpExists, tmpPK, tmp,
                   tmpC, all_data, out_columns, start_pos, batches, failedAt,
                   priorOps>>

\* line 95, ALTER TABLE ... ADD CONSTRAINT ... PRIMARY KEY, then line 97, the
\* call append_df(df, db_conn, temp_table, False)
uj_add_pk ==
    /\ pc = "uj_add_pk"
    /\ tmpPK' = TRUE
    /\ tblC' = tbl
    /\ tmpC' = tmp
    /\ log' = Append(log, "ALTER")
    /\ table' = "TEMP"
    /\ truncate' = FALSE
    /\ pc' = "format_data"
    /\ UNCHANGED <<err, caller, BATCH_SIZE, desc, tbl, tmpExists, tmp,
                   df_columns, df_rows, join_keys, commit, all_data,
                   out_columns, start_pos, np_array, column, batches, failedAt,
                   tblAtCall, tblCAtCall, tmpAtCall, priorOps>>

\* line 141
uj_update ==
    /\ pc = "uj_update"
    /\ UpdateStatementValid(df_columns, join_keys)
    /\ tbl' = UpdateByJoin(tbl, tmp, df_columns, join_keys)
    /\ log' = Append(log, "UPDATE")
    /\ pc' = "uj_delete_temp"
    /\ UNCHANGED <<callVars, err, BATCH_SIZE, desc, tblC, tmpExists, tmpPK,
                   tmp, tmpC, all_data, out_columns, start_pos, batches,
                   failedAt, priorOps>>

\* line 143
uj_delete_temp ==
    /\ pc = "uj_delete_temp"
    /\ tmp' = DeleteMatched(tmp, tbl, join_keys)
    /\ log' = Append(log, "DELETE_TEMP")
    /\ pc' = "uj_append_from_temp"
    /\ UNCHANGED <<callVars, err, BATCH_SIZE, desc, tbl, tblC, tmpExists,
                   tmpPK, tmpC, all_data, out_columns, start_pos, batches,
                   failedAt, priorOps>>

\* line 145
uj_append_from_temp ==
    /\ pc = "uj_append_from_temp"
    /\ tbl' = tbl (+) tmp
    /\ log' = Append(log, "INSERT_SELECT")
    /\ pc' = "uj_commit"
    /\ UNCHANGED <<callVars, err, BATCH_SIZE, desc, tblC, tmpExists, tmpPK,
                   tmp, tmpC, all_data, out_columns, start_pos, batches,
                   failedAt, priorOps>>

\* line 147
uj_commit ==
    /\ pc = "uj_commit"
    /\ commit_transactions(commit)
    /\ pc' = "uj_drop"
    /\ UNCHANGED <<callVars, err, BATCH_SIZE, desc, tmpExists, tmpPK,
                   all_data, out_columns, start_pos, batches, failedAt,
                   priorOps>>

\* line 149, DROP TABLE TEMP_<table>: commits what is open, then update_join
\* returns
uj_drop ==
    /\ pc = "uj_drop"
    /\ tblC' = tbl
    /\ tmpExists' = FALSE
    /\ tmpPK' = FALSE
    /\ tmp' = EmptyBag
    /\ tmpC' = EmptyBag
    /\ log' = Append(log, "DROP")
    /\ pc' = "returned"
    /\ UNCHANGED <<callVars, err, BATCH_SIZE, desc, tbl, all_data,
                   out_columns, start_pos, batches, failedAt, priorOps>>

\* The statement a step of update_join sends
StatementAt(at) ==
    CASE at = "uj_add_pk" -> "ALTER"
      [] at = "uj_update" -> "UPDATE"
      [] at = "uj_delete_temp" -> "DELETE_TEMP"
      [] at = "uj_append_from_temp" -> "INSERT_SELECT"

\* lines 95, 141, 143, 145: cur.execute raises (the statement does not parse,
\* or the driver reports an error); update_join has no handler, the exception
\* leaves it
uj_statement_fail ==
    /\ pc \in {"uj_add_pk", "uj_update", "uj_delete_temp", "uj_append_from_temp"}
    /\ log' = Append(log, StatementAt(pc))
    /\ err' = "DatabaseError"
    /\ pc' = "raised"
    /\ UNCHANGED <<callVars, BATCH_SIZE, desc, dbVars, all_data, out_columns,
                   start_pos, batches, failedAt, priorOps>>

----------------------------------------------------------------------------
(* Inputs *)

\* Column lists whose names stay distinct when upper-cased (pandas cannot
\* reindex duplicate labels)
ColumnLists(names, n) ==
    {s \in SeqsUpTo(names, n) :
        \A i, j \in DOMAIN s : i # j => Upper(s[i]) # Upper(s[j])}

Rows(cols, vals) == [DOMAIN cols -> vals]

\* DataFrame layouts offered to a table with columns TableCols: the table's own
\* columns, the same in another order and case, one column short, one too many
Layouts == {<<"A", "B">>, <<"b", "a">>, <<"A">>, <<"A", "B", "C">>}

\* The DataFrame row that holds the table row r under the column list cols
Laid(r, cols) ==
    [i \in DOMAIN cols |->
        IF Upper(cols[i]) \in Range(TableCols)
          THEN r[Pos(Upper(cols[i]), TableCols)] ELSE "x"]

Idle(d, size, content) ==
    /\ pc = "idle"
    /\ err = "none"
    /\ caller = "none"
    /\ BATCH_SIZE = size
    /\ desc = d
    /\ tbl = content
    /\ tblC = content
    /\ tmpPK = FALSE
    /\ df_columns = <<>>
    /\ df_rows = <<>>
    /\ table = "T"
    /\ truncate = FALSE
    /\ join_keys = <<>>
    /\ commit = FALSE
    /\ all_data = <<>>
    /\ out_columns = <<>>
    /\ start_pos = 0
    /\ np_array = <<>>
    /\ column = "A"
    /\ log = <<>>
    /\ batches = <<>>
    /\ failedAt = 0
    /\ tblAtCall = content
    /\ tblCAtCall = content
    /\ tmpAtCall = [exists |-> tmpExists, rows |-> tmp]
    /\ priorOps = 0

NoScratch ==
    /\ tmpExists = FALSE
    /\ tmp = EmptyBag
    /\ tmpC = EmptyBag

----------------------------------------------------------------------------
(* Schema reconciliation on its own: format_data called by the user *)

MaxFmtRows == 1     \* rows of the DataFrame in the reconciliation runs

InitFormat ==
    /\ NoScratch
    /\ \E d \in ColumnLists({"A", "B", "C"}, MaxCols) :
          d # <<>> /\ Idle(d, 1, EmptyBag)

call_format_data ==
    /\ pc = "idle"
    /\ \E cols \in ColumnLists({"A", "a", "B", "b", "C", "c"}, MaxCols + 1) :
          /\ df_columns' = cols
          /\ df_rows' \in SeqsUpTo(Rows(cols, RawVals), MaxFmtRows)
    /\ caller' = "format_data"
    /\ pc' = "format_data"
    /\ UNCHANGED <<err, BATCH_SIZE, desc, dbVars, table, truncate, join_keys,
                   commit, all_data, out_columns, start_pos, np_array, column,
                   log, batches, failedAt, tblAtCall, tblCAtCall, tmpAtCall,
                   priorOps>>

NextFormat ==
    \/ call_format_data
    \/ format_data_raise
    \/ format_data_return

SpecFormat == InitFormat /\ [][NextFormat]_vars

----------------------------------------------------------------------------
(* Batch append: append_df, lines 53-58, called by the user *)

InitAppend ==
    /\ NoScratch
    /\ \E size \in 1..MaxBatch :
       \E content \in BagsUpTo(Rows(TableCols, MergeVals), MaxT) :
          Idle(TableCols, size, content)

call_append_df ==
    /\ pc = "idle"
    /\ \E cols \in Layouts :
       \E rs \in SeqsUpTo(Rows(TableCols, MergeVals), MaxS) :
          /\ df_columns' = cols
          /\ df_rows' = [i \in DOMAIN rs |-> Laid(rs[i], cols)]
    /\ truncate' \in BOOLEAN
    /\ table' = "T"
    /\ caller' = "append_df"
    /\ pc' = "format_data"
    /\ UNCHANGED <<err, BATCH_SIZE, desc, dbVars, join_keys, commit, all_data,
                   out_columns, start_pos, np_array, column, log, batches,
                   failedAt, tblAtCall, tblCAtCall, tmpAtCall, priorOps>>

NextAppend ==
    \/ call_append_df
    \/ format_data_raise
    \/ format_data_return
    \/ append_data_empty
    \/ append_data_begin
    \/ append_data_break
    \/ append_data_batch
    \/ append_data_batch_fail

SpecAppend == InitAppend /\ [][NextAppend]_vars

----------------------------------------------------------------------------
(* Keyed delete: delete_data called by the user *)

InitDelete ==
    /\ NoScratch
    /\ \E content \in BagsUpTo(Rows(TableCols, MergeVals), MaxT) :
          Idle(TableCols, 1, content)

\* The parent script calls delete_data; it may have called it before
call_delete_data ==
    /\ pc = "idle" \/ (pc = "returned" /\ caller = "delete_data")
    /\ priorOps < MaxPriorOps
    /\ np_array' \in SeqsUpTo(MergeVals, MaxKeys)
    /\ column' \in Range(TableCols)
    /\ caller' = "delete_data"
    /\ tblAtCall' = tbl
    /\ tblCAtCall' = tblC
    /\ tmpAtCall' = [exists |-> tmpExists, rows |-> tmp]
    /\ priorOps' = priorOps + 1
    /\ log' = <<>>
    /\ batches' = <<>>
    /\ pc' = "delete_data"
    /\ UNCHANGED <<err, BATCH_SIZE, desc, dbVars, df_columns, df_rows, table,
                   truncate, join_keys, commit, all_data, out_columns,
                   start_pos, failedAt>>

NextDelete ==
    \/ call_delete_data
    \/ delete_data_skip
    \/ delete_data_execute
    \/ delete_data_fail

SpecDelete == InitDelete /\ [][NextDelete]_vars

----------------------------------------------------------------------------
(* Merge: update_join called by the user, after the DML the parent script *)
(* may have left uncommitted on the connection                            *)

JoinKeyLists == {<<"A">>, <<"B">>, <<"a">>, <<"A", "B">>}

Init ==
    /\ tmpExists \in BOOLEAN
    /\ tmp = IF tmpExists THEN SetToBag({<<"x", "x">>}) ELSE EmptyBag
    /\ tmpC = tmp
    /\ \E content \in BagsUpTo(Rows(TableCols, MergeVals), MaxT) :
          Idle(TableCols, MaxBatch, content)

call_update_join ==
    /\ pc = "idle" \/ (pc = "returned" /\ caller = "delete_data")
    /\ \E cols \in Layouts :
       \E rs \in SeqsUpTo(Rows(TableCols, MergeVals), MaxStaged) :
          /\ df_columns' = cols
          /\ df_rows' = [i \in DOMAIN rs |-> Laid(rs[i], cols)]
    /\ join_keys' \in JoinKeyLists
    /\ commit' \in BOOLEAN
    /\ caller' = "update_join"
    /\ tblAtCall' = tbl
    /\ tblCAtCall' = tblC
    /\ tmpAtCall' = [exists |-> tmpExists, rows |-> tmp]
    /\ np_array' = <<>>
    /\ column' = "A"
    /\ log' = <<>>
    /\ batches' = <<>>
    /\ pc' = "uj_create"
    /\ UNCHANGED <<err, BATCH_SIZE, desc, dbVars, table, truncate, all_data,
                   out_columns, start_pos, failedAt, priorOps>>

Next ==
    \/ call_delete_data
    \/ delete_data_skip
    \/ delete_data_execute
    \/ delete_data_fail
    \/ call_update_join
    \/ uj_create
    \/ uj_create_fail
    \/ uj_add_pk
    \/ format_data_raise
    \/ format_data_return
    \/ append_data_empty
    \/ append_data_begin
    \/ append_data_break
    \/ append_data_batch
    \/ append_data_batch_fail
    \/ uj_update
    \/ uj_delete_temp
    \/ uj_append_from_temp
    \/ uj_commit
    \/ uj_drop
    \/ uj_statement_fail

Spec == Init /\ [][Next]_vars

----------------------------------------------------------------------------
(* Properties of format_data and append_data *)

RECURSIVE Concat(_)
Concat(ss) == IF ss = <<>> THEN <<>> ELSE Head(ss) \o Concat(Tail(ss))

Ceil(n, b) == (n + b - 1) \div b

Count(s, x) == Cardinality({i \in DOMAIN s : s[i] = x})

\* C6: format_data either returns records whose columns are exactly the
\* table's columns in the table's order (source columns matched by upper-cased
\* name, the others dropped), or, exactly when a table column is absent from
\* the source, raises the schema-mismatch error and returns no records.
C6_FormatData ==
    caller = "format_data" /\ pc \in {"returned", "raised"} =>
        /\ (pc = "raised") = (\E j \in DOMAIN desc :
                                 \A i \in DOMAIN df_columns :
                                    Upper(df_columns[i]) # desc[j])
        /\ pc = "raised" =>
              err = "SchemaMismatch" /\ all_data = <<>> /\ out_columns = <<>>
        /\ pc = "returned" =>
              /\ err = "none"
              /\ out_columns = desc
              /\ Len(all_data) = Len(df_rows)
              /\ \A i \in DOMAIN all_data :
                    /\ DOMAIN all_data[i] = DOMAIN desc
                    /\ \A j \in DOMAIN desc :
                          \E k \in DOMAIN df_columns :
                             /\ Upper(df_columns[k]) = desc[j]
                             /\ all_data[i][j] =
                                  IF df_rows[i][k] \in {"", NaN}
                                    THEN None ELSE df_rows[i][k]

C6_Witness ==
    /\ caller = "format_data"
    /\ pc = "returned"
    /\ Len(desc) = 2
    /\ Len(df_columns) = 3
    /\ df_columns[1] = desc[2]
    /\ df_columns[3] = desc[1]
    /\ Len(all_data) = 1
    /\ all_data[1] = <<"x", None>>

\* C4: when no executemany call fails, append_data issues ceil(N/B) calls,
\* each with 1..B rows, and the batches in the order issued concatenate to the
\* input rows.
C4_Batches ==
    /\ caller = "append_df"
    /\ failedAt = 0
    /\ pc = "returned" \/ (pc = "raised" /\ err = "IndexError")
    => /\ Len(batches) = Ceil(Len(all_data), BATCH_SIZE)
       /\ \A i \in DOMAIN batches :
             Len(batches[i]) >= 1 /\ Len(batches[i]) <= BATCH_SIZE
       /\ Concat(batches) = all_data
       /\ Count(log, "INSERT") = Len(batches)

C4_Witness ==
    /\ caller = "append_df"
    /\ pc = "returned"
    /\ Len(all_data) = 3
    /\ BATCH_SIZE = 2
    /\ Len(batches) = 2
    /\ Len(batches[2]) = 1

\* C5: append_df with truncate=True, when no statement fails, leaves the
\* target table holding exactly the N input rows, after exactly one DELETE.
C5_TruncateThenAppend ==
    /\ caller = "append_df"
    /\ truncate
    /\ failedAt = 0
    /\ pc = "returned" \/ (pc = "raised" /\ err = "IndexError")
    => /\ tbl = SeqToBag(all_data)
       /\ BagCardinality(tbl) = Len(df_rows)
       /\ Count(log, "DELETE_ALL") = 1

\* C7: when the executemany call for batch i fails, the process ends: batches
\* 1..i were each sent once and nothing after them, no rollback or commit was
\* issued, and the truncate and the earlier batches stay in the transaction.
C7_BatchFailureAborts ==
    failedAt # 0 =>
        /\ pc = "exited"
        /\ err = "SystemExit"
        /\ ~ENABLED NextAppend
        /\ Len(batches) = failedAt
        /\ \A i \in 1..failedAt :
              batches[i] = Slice(all_data, (i - 1) * BATCH_SIZE, i * BATCH_SIZE)
        /\ Count(log, "INSERT") = failedAt
        /\ "ROLLBACK" \notin Range(log)
        /\ "COMMIT" \notin Range(log)
        /\ tblC = tblCAtCall
        /\ LET base == IF truncate THEN EmptyBag ELSE tblAtCall
               sent == Concat(SubSeq(batches, 1, failedAt - 1))
               last == batches[failedAt]
           IN  \E p \in 0..(Len(last) - 1) :
                  tbl = base (+) SeqToBag(sent) (+) SeqToBag(SubSeq(last, 1, p))

C7_Witness ==
    /\ pc = "exited"
    /\ failedAt = 2
    /\ truncate
    /\ BATCH_SIZE = 1
    /\ Len(all_data) = 3
    /\ tblAtCall # EmptyBag
    /\ tbl = SeqToBag(batches[1])

----------------------------------------------------------------------------
(* Properties of delete_data *)

\* C9: delete_data with an empty key array sends no DELETE, raises nothing and
\* leaves the table as it was; with a non-empty array it makes exactly one
\* executemany call that binds one single-column tuple per key.
C9_DeleteData ==
    caller = "delete_data" /\ pc \in {"returned", "raised"} =>
        /\ Len(np_array) = 0 =>
              /\ pc = "returned"
              /\ err = "none"
              /\ log = <<>>
              /\ batches = <<>>
              /\ tbl = tblAtCall
              /\ tblC = tblCAtCall
        /\ Len(np_array) # 0 =>
              /\ log = <<"DELETE_KEYS">>
              /\ Len(batches) = 1
              /\ Len(batches[1]) = Len(np_array)
              /\ \A i \in DOMAIN np_array : batches[1][i] = <<np_array[i]>>

C9_Witness ==
    /\ caller = "delete_data"
    /\ pc = "returned"
    /\ Len(np_array) = 0
    /\ tbl # EmptyBag
    /\ log = <<>>

----------------------------------------------------------------------------
(* Properties of update_join *)

RECURSIVE SumOver(_, _)
SumOver(S, f) ==
    IF S = {} THEN 0
    ELSE LET x == CHOOSE y \in S : TRUE IN f[x] + SumOver(S \ {x}, f)

\* Positions of the join-key columns in a row
KeyPositions(jk) == {j \in DOMAIN desc : \E i \in DOMAIN jk : Upper(jk[i]) = desc[j]}

\* Rows t and s agree on every join-key column
SameKey(t, s, jk) == \A j \in KeyPositions(jk) : t[j] = s[j]

\* The staged rows whose key no row of the target carries
Unmatched(target, staged, jk) ==
    {s \in Range(staged) : \A t \in BagToSet(target) : ~SameKey(t, s, jk)}

\* What the merge should make of target row t: its key columns kept, the other
\* columns taken from the staged row with t's key, if there is one
Merged(t, staged, jk) ==
    IF \E s \in Range(staged) : SameKey(t, s, jk)
      THEN LET s == CHOOSE x \in Range(staged) : SameKey(t, x, jk)
           IN  [j \in DOMAIN t |-> IF j \in KeyPositions(jk) THEN t[j] ELSE s[j]]
      ELSE t

\* The target table after merging the staged rows into it
MergeOf(target, staged, jk) ==
    LET rows == {Merged(t, staged, jk) : t \in BagToSet(target)}
                   \cup Unmatched(target, staged, jk)
        copies == [r \in rows |->
                     SumOver({t \in BagToSet(target) : Merged(t, staged, jk) = r},
                             [t \in BagToSet(target) |-> CopiesIn(t, target)])
                     + (IF r \in Unmatched(target, staged, jk) THEN 1 ELSE 0)]
    IN  copies

\* C1: when update_join(S, T, K, commit=True) returns, every row of T with a key
\* match in S has its non-key columns overwritten from that S row, every other
\* row of T is unchanged, every S row without a match is appended, and the row
\* count is |T before| + |S rows without a match|.
C1_Merge ==
    caller = "update_join" /\ pc = "returned" /\ commit =>
        /\ \A i, j \in DOMAIN all_data :
              i # j => ~SameKey(all_data[i], all_data[j], join_keys)
        /\ tbl = MergeOf(tblAtCall, all_data, join_keys)
        /\ tblC = tbl
        /\ BagCardinality(tbl) =
              BagCardinality(tblAtCall)
                 + Cardinality(Unmatched(tblAtCall, all_data, join_keys))

\* A two-row target, two staged rows: one overwrites a target row, one is new
C1_Witness ==
    /\ caller = "update_join"
    /\ pc = "returned"
    /\ commit
    /\ join_keys = <<"A">>
    /\ tblAtCall = SeqToBag(<< <<"x", "x">>, <<"x", "x">> >>)
    /\ all_data = << <<"x", "y">>, <<"y", "y">> >>
    /\ tbl = SeqToBag(<< <<"x", "y">>, <<"x", "y">>, <<"y", "y">> >>)
    /\ BagCardinality(tbl) = 3

\* The last five statements of log
LastFive(l) == SubSeq(l, Len(l) - 4, Len(l))

\* C2: the commit (commit=True) or rollback (commit=False) is issued after the
\* update, purge and append-remainder statements and before DROP TABLE; with
\* commit=False no change of the merge to the target is durable after the
\* call, with commit=True all of them are.
C2_CommitFlag ==
    caller = "update_join" /\ pc = "returned" =>
        /\ Len(log) >= 5
        /\ LastFive(log) = <<"UPDATE", "DELETE_TEMP", "INSERT_SELECT",
                          IF commit THEN "COMMIT" ELSE "ROLLBACK", "DROP">>
        /\ Count(log, "COMMIT") + Count(log, "ROLLBACK") = 1
        /\ Count(log, "DROP") = 1
        /\ commit => tblC = MergeOf(tblAtCall, all_data, join_keys)
        /\ ~commit => tblC = tblAtCall /\ tbl = tblAtCall

C2_Witness ==
    /\ caller = "update_join"
    /\ pc = "returned"
    /\ ~commit
    /\ tblAtCall = SeqToBag(<< <<"x", "x">> >>)
    /\ all_data = << <<"x", "y">>, <<"y", "y">> >>
    /\ join_keys = <<"A">>
    /\ tblC = tblAtCall

\* update_join has ended
Ended == pc \in {"returned", "raised", "exited"}

\* C3: once update_join has ended, however it ended, the scratch table its
\* step 1 created no longer exists.
C3_ScratchDropped ==
    /\ caller = "update_join"
    /\ ~tmpAtCall.exists
    /\ "CREATE" \in Range(log)
    /\ Ended
    => ~tmpExists

\* C8: when TEMP_<table> exists at the call, CREATE fails and the error leaves
\* update_join: no later statement is sent, nothing is staged, the target is
\* neither updated nor appended to, no commit or rollback is issued and the
\* existing TEMP_<table> is neither modified nor dropped.
C8_ScratchExists ==
    caller = "update_join" /\ tmpAtCall.exists /\ pc # "uj_create" =>
        /\ pc = "raised"
        /\ err = "DatabaseError"
        /\ log = <<"CREATE">>
        /\ batches = <<>>
        /\ all_data = <<>>
        /\ tbl = tblAtCall
        /\ tmpExists
        /\ ~tmpPK
        /\ tmp = tmpAtCall.rows
        /\ tmpC = tmpAtCall.rows
        /\ ~ENABLED Next

C8_Witness ==
    /\ caller = "update_join"
    /\ tmpAtCall.exists
    /\ pc = "raised"
    /\ df_rows # <<>>
    /\ tbl # EmptyBag
    /\ tmp = SetToBag({<<"x", "x">>})

\* C10: DML the caller left uncommitted before update_join is durable as soon
\* as step 1's CREATE TABLE has run, whatever the flag; after
\* update_join(commit=False) has returned the committed target is the content
\* the caller had pending, not the content committed before the call, and a
\* rollback changes nothing; the merge's own DML is rolled back.
C10_PendingDmlCommitted ==
    caller = "update_join" /\ ~tmpAtCall.exists =>
        /\ pc \in {"uj_add_pk", "format_data", "append_data", "append_loop",
                   "uj_update", "uj_delete_temp", "uj_append_from_temp",
                   "uj_commit"}
              => tblC = tblAtCall
        /\ pc = "returned" /\ ~commit => tblC = tblAtCall /\ tbl = tblC

C10_Witness ==
    /\ caller = "update_join"
    /\ pc = "returned"
    /\ ~commit
    /\ priorOps = 1
    /\ tblCAtCall = SeqToBag(<< <<"x", "x">>, <<"y", "y">> >>)
    /\ tblAtCall = SeqToBag(<< <<"y", "y">> >>)
    /\ all_data = << <<"y", "x">>, <<"x", "y">> >>
    /\ tblC = tblAtCall

====
